---- MODULE Spec2Model ----
(***************************************************************************)
(* Model of mod_sorter.py: the archive classification-and-extraction loop  *)
(* (process_zips) with its start-up steps (load_config,                    *)
(* get_sims_mods_path), over an abstract filesystem.                       *)
(***************************************************************************)
EXTENDS Integers, Sequences, FiniteSets, TLC

\* ------------------------------------------------------------------------
\* Bounds of the model
\* ------------------------------------------------------------------------
MaxRules == 2
MaxZips == 2
MaxRuns == 2
MaxFaults == 1

\* ------------------------------------------------------------------------
\* String helpers (str.lower, str.endswith, os.path.basename, re.search)
\* ------------------------------------------------------------------------
UpperChars == "ABCDEFGHIJKLMNOPQRSTUVWXYZ"
LowerChars == "abcdefghijklmnopqrstuvwxyz"

Chr(s, i) == SubSeq(s, i, i)

\* str.lower() on one character
ToLower ==
    [c \in {Chr(UpperChars, i) : i \in 1..Len(UpperChars)} |->
        Chr(LowerChars, CHOOSE i \in 1..Len(UpperChars) : Chr(UpperChars, i) = c)]

LowerChar(c) == IF c \in DOMAIN ToLower THEN ToLower[c] ELSE c

RECURSIVE Lower(_)
Lower(s) == IF Len(s) = 0 THEN "" ELSE LowerChar(Chr(s, 1)) \o Lower(Tail(s))

EndsWith(s, suffix) ==
    /\ Len(s) >= Len(suffix)
    /\ SubSeq(s, Len(s) - Len(suffix) + 1, Len(s)) = suffix

\* ZipInfo.is_dir(): the member name ends with a slash
IsDir(filename) == EndsWith(filename, "/")

\* No flattening: the member path is kept whole
BasenameWhole(p) == p

\* os.path.basename: everything after the last slash
Basename(p) ==
    LET slashes == {i \in 1..Len(p) : Chr(p, i) = "/"}
        last == IF slashes = {} THEN 0
                ELSE CHOOSE i \in slashes : \A j \in slashes : j <= i
    IN  IF last = Len(p) THEN "" ELSE SubSeq(p, last + 1, Len(p))

\* re.compile raising re.error: of the patterns of the model (letters, the
\* wildcard "." and parentheses) those with unbalanced parentheses
ReMalformed(pattern) ==
    Cardinality({i \in 1..Len(pattern) : Chr(pattern, i) = "("})
        # Cardinality({i \in 1..Len(pattern) : Chr(pattern, i) = ")"})

\* re.search(pattern, s, re.IGNORECASE) for a well-formed pattern of letters
\* and wildcards: a hit anywhere in s, letters compared without case
ReSearch(pattern, s) ==
    \E i \in 1..(Len(s) - Len(pattern) + 1) :
        \A k \in 1..Len(pattern) :
            \/ Chr(pattern, k) = "."
            \/ LowerChar(Chr(pattern, k)) = LowerChar(Chr(s, i + k - 1))

\* ------------------------------------------------------------------------
\* The inputs of a run: archives on disk, the configuration document, the
\* files already under the Mods directory
\* ------------------------------------------------------------------------
Member(filename, payload) == [filename |-> filename, payload |-> payload]

\* The archives that may lie in the source folder: name |-> whether
\* zipfile.ZipFile can open it, and its infolist()
ZipLibrary ==
    [ z \in {"pack1.zip", "pack2.zip", "pack1_copy.zip", "broken.zip"} |->
        CASE z = "pack1.zip" ->
               [valid |-> TRUE,
                members |-> << Member("a/RedHair.package", "red"),
                               Member("b/GreenEye.package", "green"),
                               Member("c/Shoe.package", "shoe"),
                               Member("notes.txt", "notes") >>]
          [] z = "pack2.zip" ->
               [valid |-> TRUE,
                members |-> << Member("folder/", ""),
                               Member("subdir/deep/MyHat.PACKAGE", "hat1"),
                               Member("long_hair_01.package", "long"),
                               Member("other/MyHat.PACKAGE", "hat2") >>]
          [] z = "pack1_copy.zip" ->
               [valid |-> TRUE,
                members |-> << Member("a/RedHair.package", "red"),
                               Member("b/GreenEye.package", "green"),
                               Member("c/Shoe.package", "shoe"),
                               Member("notes.txt", "notes") >>]
          [] z = "broken.zip" ->
               [valid |-> FALSE, members |-> << >>] ]

ZipNames == DOMAIN ZipLibrary

Rule(key, pattern) == [key |-> key, pattern |-> pattern]

\* The (category, pattern) pairs a rule set is drawn from
RulePool ==
    { Rule("hair", "hai"), Rule("accessories", "air"), Rule("hair", "hair"),
      Rule("eyes", "eye"), Rule("broken", "(") }

\* config["rules"]: a dict in insertion order, its keys distinct
RuleSets ==
    { rs \in UNION { [1..n -> RulePool] : n \in 0..MaxRules } :
        \A i, j \in 1..Len(rs) : i # j => rs[i].key # rs[j].key }

DefaultUnsorted == "_unsorted"

\* The orders in which glob may list a set of archives
Orderings(S) ==
    { f \in [1..Cardinality(S) -> S] :
        \A i, j \in 1..Cardinality(S) : i # j => f[i] # f[j] }

\* Contents of a destination file left by a failed extraction
EmptyFile == "<empty>"
TruncatedFile == "<truncated>"

Path(category, base_filename) == <<category, base_filename>>

\* Files that may lie under the Mods directory before the first run
InitialDestinations ==
    { << >>,
      Path("hair", "RedHair.package") :> "old" }

\* ------------------------------------------------------------------------
\* Scanning and classifying a member (lines 73-90)
\* ------------------------------------------------------------------------
\* The scan without the extension test of line 73
EligibleAnyFile(filename) == Basename(filename) # ""

\* The tracked-extension test of the scan (line 73) and the empty-basename
\* test (line 79)
Eligible(filename) ==
    /\ ~ (~ EndsWith(Lower(filename), ".package") \/ IsDir(filename))
    /\ Basename(filename) # ""

Filenames ==
    UNION {{ZipLibrary[z].members[i].filename : i \in DOMAIN ZipLibrary[z].members} :
              z \in ZipNames}

\* Lines 73-79 for each member name of the archives, evaluated once
Scanned ==
    [f \in Filenames |-> [eligible |-> Eligible(f), base_filename |-> Basename(f)]]

\* Line 87 for each pattern and flattened name, evaluated once
Searched ==
    [pattern \in {r.pattern : r \in RulePool},
     name \in {Scanned[f].base_filename : f \in Filenames} |->
        IF ReMalformed(pattern) THEN FALSE ELSE ReSearch(pattern, name)]

\* The rule loop without its break: the last rule that hits decides
RECURSIVE ClassifyLast(_, _, _, _)
ClassifyLast(rules, unsorted_name, base_filename, i) ==
    IF i > Len(rules)
    THEN [target_folder_name |-> unsorted_name, found_match |-> FALSE, raised |-> FALSE]
    ELSE IF ReMalformed(rules[i].pattern)
    THEN [target_folder_name |-> unsorted_name, found_match |-> FALSE, raised |-> TRUE]
    ELSE LET later == ClassifyLast(rules, unsorted_name, base_filename, i + 1)
         IN  IF later.raised \/ later.found_match \/ ~ Searched[rules[i].pattern, base_filename]
             THEN later
             ELSE [target_folder_name |-> rules[i].key, found_match |-> TRUE, raised |-> FALSE]

\* The rule loop without line 81: no category when no rule hits
RECURSIVE ClassifyNoDefault(_, _, _, _)
ClassifyNoDefault(rules, unsorted_name, base_filename, i) ==
    IF i > Len(rules)
    THEN [target_folder_name |-> "", found_match |-> FALSE, raised |-> FALSE]
    ELSE IF ReMalformed(rules[i].pattern)
    THEN [target_folder_name |-> "", found_match |-> FALSE, raised |-> TRUE]
    ELSE IF Searched[rules[i].pattern, base_filename]
    THEN [target_folder_name |-> rules[i].key, found_match |-> TRUE, raised |-> FALSE]
    ELSE ClassifyNoDefault(rules, unsorted_name, base_filename, i + 1)

\* The rule loop (lines 81-90) from rule i on: the first rule whose pattern
\* hits decides; a malformed pattern raises when its rule is reached
RECURSIVE Classify(_, _, _, _)
Classify(rules, unsorted_name, base_filename, i) ==
    IF i > Len(rules)
    THEN [target_folder_name |-> unsorted_name, found_match |-> FALSE, raised |-> FALSE]
    ELSE IF ReMalformed(rules[i].pattern)
    THEN [target_folder_name |-> unsorted_name, found_match |-> FALSE, raised |-> TRUE]
    ELSE IF Searched[rules[i].pattern, base_filename]
    THEN [target_folder_name |-> rules[i].key, found_match |-> TRUE, raised |-> FALSE]
    ELSE Classify(rules, unsorted_name, base_filename, i + 1)

\* ------------------------------------------------------------------------
\* State
\* ------------------------------------------------------------------------
VARIABLES
    configFile,      \* config.json: "ok", "missing" or "invalid"
    configDoc,       \* the document in config.json: rules, unsorted_folder_name
    modsExists,      \* the Mods directory exists
    sourceExists,    \* the source folder exists
    sourceZips,      \* names of the *.zip files directly in the source folder
    processedExists, \* source/processed_archive exists
    processedZips,   \* names of the archives in source/processed_archive
    destDirs,        \* category subdirectories of the Mods directory
    destFiles,       \* <<category, filename>> |-> content, the files in them
    pc,              \* position of the run
    zip_files,       \* the list of line 57
    zi,              \* index in zip_files of the current archive
    mi,              \* index in infolist() of the current member
    count_moved,
    count_unsorted,
    out,             \* the lines printed by this run
    summary,         \* the DONE line, once printed
    outcomes,        \* <<zi, mi>> |-> what happened to that eligible member
    run,             \* number of the run
    faults,          \* number of I/O errors the filesystem has raised so far
    startFiles,      \* destFiles as it was when this run started
    scans            \* <<run, zi, archive>> of every member loop that reached its end

vars == << configFile, configDoc, modsExists, sourceExists, sourceZips,
           processedExists, processedZips, destDirs, destFiles, pc, zip_files,
           zi, mi, count_moved, count_unsorted, out, summary, outcomes, run,
           faults, startFiles, scans >>

fsVars == << sourceExists, sourceZips, processedExists, processedZips,
             destDirs, destFiles >>

rules == configDoc.rules
unsorted_name == configDoc.unsorted_name

Line(tag, zip, category, filename) ==
    [tag |-> tag, zip |-> zip, category |-> category, filename |-> filename]

zip_path == zip_files[zi]
infolist == ZipLibrary[zip_path].members
file_info == infolist[mi]
base_filename == Scanned[file_info.filename].base_filename
eligible == Scanned[file_info.filename].eligible
classified == Classify(rules, unsorted_name, base_filename, 1)
target_folder_name == classified.target_folder_name
\* The destination built from the member path, its folders kept
dest_file_path_nested == Path(target_folder_name, file_info.filename)

\* dest_dir / base_filename (lines 93-97)
dest_file_path == Path(target_folder_name, base_filename)

Outcome(result) ==
    [result |-> result, category |-> target_folder_name,
     filename |-> base_filename, found_match |-> classified.found_match]

Init ==
    /\ configFile \in {"ok", "missing", "invalid"}
    /\ modsExists \in BOOLEAN
    /\ sourceExists \in BOOLEAN
    /\ configDoc \in [rules : RuleSets, unsorted_name : {DefaultUnsorted}]
    /\ sourceZips \in {S \in SUBSET ZipNames : Cardinality(S) <= MaxZips}
    /\ destFiles \in InitialDestinations
    \* start-up failures are explored for one configuration only
    /\ (configFile # "ok" \/ ~ modsExists \/ ~ sourceExists) =>
          /\ configDoc.rules = << >>
          /\ destFiles = << >>
          /\ Cardinality(sourceZips) <= 1
    /\ ~ sourceExists => sourceZips = {}
    /\ ~ modsExists => destFiles = << >>
    /\ destDirs = {p[1] : p \in DOMAIN destFiles}
    /\ processedExists = FALSE
    /\ processedZips = {}
    /\ pc = "load_config"
    /\ zip_files = << >>
    /\ zi = 0
    /\ mi = 0
    /\ count_moved = 0
    /\ count_unsorted = 0
    /\ out = << >>
    /\ summary = {}
    /\ outcomes = << >>
    /\ run = 1
    /\ faults = 0
    /\ startFiles = destFiles
    /\ scans = {}

\* ------------------------------------------------------------------------
\* Start-up
\* ------------------------------------------------------------------------
Say(line) == out' = Append(out, line)

\* load_config (lines 11-25): exit when config.json is missing or not JSON
LoadConfig ==
    /\ pc = "load_config"
    /\ IF configFile = "missing"
       THEN /\ Say(Line("config not found", "", "", ""))
            /\ pc' = "exit"
       ELSE IF configFile = "invalid"
       THEN /\ Say(Line("config not valid JSON", "", "", ""))
            /\ pc' = "exit"
       ELSE /\ pc' = "get_sims_mods_path"
            /\ UNCHANGED out
    /\ UNCHANGED << configFile, configDoc, modsExists, fsVars, zip_files, zi, mi,
                    count_moved, count_unsorted, summary, outcomes, run, faults, startFiles, scans >>

\* get_sims_mods_path without its exit(): the path is returned even when the
\* directory is absent
GetSimsModsPathNoExit ==
    /\ pc = "get_sims_mods_path"
    /\ IF ~ modsExists
       THEN /\ Say(Line("CRITICAL ERROR", "", "", ""))
            /\ pc' = "process_zips"
       ELSE /\ Say(Line("Target Mods Directory", "", "", ""))
            /\ pc' = "process_zips"
    /\ UNCHANGED << configFile, configDoc, modsExists, fsVars, zip_files, zi, mi,
                    count_moved, count_unsorted, summary, outcomes, run, faults, startFiles, scans >>

\* get_sims_mods_path (lines 27-41): exit when the Mods directory is absent
GetSimsModsPath ==
    /\ pc = "get_sims_mods_path"
    /\ IF ~ modsExists
       THEN /\ Say(Line("CRITICAL ERROR", "", "", ""))
            /\ pc' = "exit"
       ELSE /\ Say(Line("Target Mods Directory", "", "", ""))
            /\ pc' = "process_zips"
    /\ UNCHANGED << configFile, configDoc, modsExists, fsVars, zip_files, zi, mi,
                    count_moved, count_unsorted, summary, outcomes, run, faults, startFiles, scans >>

\* A recursive listing, which also finds the archives under processed_archive
RGlobZips == sourceZips \cup processedZips

\* source_path.glob("*.zip") (line 57): the archives directly in the source
\* folder
GlobZips == sourceZips

\* process_zips up to the loop (lines 45-65): create a missing source folder
\* and exit, return when it holds no archive, else list them and zero the
\* counters
Enumerate ==
    /\ pc = "process_zips"
    /\ IF ~ sourceExists
       THEN /\ sourceExists' = TRUE
            /\ Say(Line("Created source folder", "", "", ""))
            /\ pc' = "exit"
            /\ UNCHANGED << zip_files, zi, count_moved, count_unsorted >>
       ELSE /\ UNCHANGED sourceExists
            /\ \E listing \in Orderings(GlobZips) : zip_files' = listing
            /\ IF GlobZips = {}
               THEN /\ Say(Line("No .zip files found", "", "", ""))
                    /\ pc' = "exit"
                    /\ UNCHANGED << zi, count_moved, count_unsorted >>
               ELSE /\ Say(Line("Found zip files", "", "", ""))
                    /\ count_moved' = 0
                    /\ count_unsorted' = 0
                    /\ zi' = 1
                    /\ pc' = "for_zip"
    /\ UNCHANGED << configFile, configDoc, modsExists, sourceZips, processedExists,
                    processedZips, destDirs, destFiles, mi, summary, outcomes, run, faults, startFiles, scans >>

\* ------------------------------------------------------------------------
\* The archive loop (lines 67-123)
\* ------------------------------------------------------------------------
\* The except clauses placed outside the for loop: the first failure ends
\* the loop
ExceptStops(lines) ==
    /\ out' = out \o lines
    /\ zi' = Len(zip_files) + 1
    /\ pc' = "for_zip"

\* An except clause that ends the program
ExceptExits(lines) ==
    /\ out' = out \o lines
    /\ zi' = zi
    /\ pc' = "exit"

\* Leaving the try block of the current archive through an except clause
Except(lines) ==
    /\ out' = out \o lines
    /\ zi' = zi + 1
    /\ pc' = "for_zip"

\* Lines 68-70 and 120-121: open the next archive; BadZipFile when it is not
\* a valid archive
OpenZip ==
    /\ pc = "for_zip"
    /\ zi <= Len(zip_files)
    /\ IF ZipLibrary[zip_path].valid
       THEN /\ Say(Line("Processing archive", zip_path, "", ""))
            /\ pc' = "for_member"
            /\ mi' = 1
            /\ UNCHANGED zi
       ELSE /\ Except(<< Line("Processing archive", zip_path, "", ""),
                         Line("ERROR corrupted", zip_path, "", "") >>)
            /\ UNCHANGED mi
    /\ UNCHANGED << configFile, configDoc, modsExists, fsVars, zip_files,
                    count_moved, count_unsorted, summary, outcomes, run, faults, startFiles, scans >>

\* The existence check dropped: every destination looks free
ExistsNever(path) == FALSE

\* The existence check made against the files found when the run started
ExistsAtStart(path) == path \in DOMAIN startFiles

\* An existence check that takes a file left by a failed write for absent
ExistsAndComplete(path) ==
    path \in DOMAIN destFiles /\ destFiles[path] \notin {EmptyFile, TruncatedFile}

\* Path.exists() of a destination file (line 100)
Exists(path) == path \in DOMAIN destFiles

\* open(path, 'wb') followed by write(content): the file holds content,
\* whatever it held before (lines 106-107)
WriteFile(files, path, content) ==
    [q \in DOMAIN files \cup {path} |-> IF q = path THEN content ELSE files[q]]

\* Lines 109-112 without the test of found_match
CountAlwaysMoved(found_match) ==
    /\ count_moved' = count_moved + 1
    /\ UNCHANGED count_unsorted

\* Lines 109-112: one of the two counters goes up
Count(found_match) ==
    IF found_match
    THEN /\ count_moved' = count_moved + 1
         /\ UNCHANGED count_unsorted
    ELSE /\ count_unsorted' = count_unsorted + 1
         /\ UNCHANGED count_moved

AtMember ==
    /\ pc = "for_member"
    /\ mi <= Len(infolist)

\* Lines 73-79: a member that is a directory or lacks the extension
SkipIneligible ==
    /\ AtMember
    /\ ~ eligible
    /\ mi' = mi + 1
    /\ UNCHANGED << configFile, configDoc, modsExists, fsVars, pc, zip_files, zi,
                    count_moved, count_unsorted, out, summary, outcomes, run, faults, startFiles, scans >>

\* Lines 85-87 and 122-123: re.search raises on a malformed pattern
PatternError ==
    /\ AtMember
    /\ eligible
    /\ classified.raised
    /\ Except(<< Line("unexpected error", zip_path, "", base_filename) >>)
    /\ UNCHANGED << configFile, configDoc, modsExists, fsVars, zip_files, mi,
                    count_moved, count_unsorted, summary, outcomes, run, faults, startFiles, scans >>

\* Lines 93-102: the destination exists
SkipExisting ==
    /\ AtMember
    /\ eligible
    /\ ~ classified.raised
    /\ destDirs' = destDirs \cup {target_folder_name}
    /\ Exists(dest_file_path)
    /\ Say(Line("SKIP", zip_path, target_folder_name, base_filename))
    /\ outcomes' = outcomes @@ (<<zi, mi>> :> Outcome("Skipped"))
    /\ mi' = mi + 1
    /\ UNCHANGED << configFile, configDoc, modsExists, sourceExists, sourceZips,
                    processedExists, processedZips, destFiles, pc, zip_files, zi,
                    count_moved, count_unsorted, summary, run, faults, startFiles, scans >>

\* Lines 93-112: the destination is free and the member is written
Extract ==
    /\ AtMember
    /\ eligible
    /\ ~ classified.raised
    /\ destDirs' = destDirs \cup {target_folder_name}
    /\ ~ Exists(dest_file_path)
    /\ Say(Line("EXTRACT", zip_path, target_folder_name, base_filename))
    /\ destFiles' = WriteFile(destFiles, dest_file_path, file_info.payload)
    /\ Count(classified.found_match)
    /\ outcomes' = outcomes @@ (<<zi, mi>> :> Outcome("Extracted"))
    /\ mi' = mi + 1
    /\ UNCHANGED << configFile, configDoc, modsExists, sourceExists, sourceZips,
                    processedExists, processedZips, pc, zip_files, zi, summary, run, faults, startFiles, scans >>

\* What an I/O error in lines 106-107 leaves at the destination: nothing when
\* open fails, an empty file when reading the member fails, a truncated one
\* when the write fails
WriteFailures == {"open", "read", "write"}

LeftBy(failure, files, path) ==
    CASE failure = "open" -> files
      [] failure = "read" -> WriteFile(files, path, EmptyFile)
      [] failure = "write" -> WriteFile(files, path, TruncatedFile)

\* A failed write caught per member: the loop goes on with the next member
ExtractFailsSwallowed ==
    /\ AtMember
    /\ eligible
    /\ ~ classified.raised
    /\ destDirs' = destDirs \cup {target_folder_name}
    /\ ~ Exists(dest_file_path)
    /\ faults < MaxFaults
    /\ faults' = faults + 1
    /\ \E failure \in WriteFailures :
          destFiles' = LeftBy(failure, destFiles, dest_file_path)
    /\ out' = out \o << Line("EXTRACT", zip_path, target_folder_name, base_filename),
                      Line("unexpected error", zip_path, target_folder_name, base_filename) >>
    /\ mi' = mi + 1
    /\ outcomes' = outcomes @@ (<<zi, mi>> :> Outcome("Failed"))
    /\ UNCHANGED << configFile, configDoc, modsExists, sourceExists, sourceZips,
                    processedExists, processedZips, zip_files, zi, pc,
                    count_moved, count_unsorted, summary, run, startFiles, scans >>

\* Lines 93-107 and 122-123: the destination is free and writing it raises
ExtractFails ==
    /\ AtMember
    /\ eligible
    /\ ~ classified.raised
    /\ destDirs' = destDirs \cup {target_folder_name}
    /\ ~ Exists(dest_file_path)
    /\ faults < MaxFaults
    /\ faults' = faults + 1
    /\ \E failure \in WriteFailures :
          destFiles' = LeftBy(failure, destFiles, dest_file_path)
    /\ Except(<< Line("EXTRACT", zip_path, target_folder_name, base_filename),
                 Line("unexpected error", zip_path, target_folder_name, base_filename) >>)
    /\ outcomes' = outcomes @@ (<<zi, mi>> :> Outcome("Failed"))
    /\ UNCHANGED << configFile, configDoc, modsExists, sourceExists, sourceZips,
                    processedExists, processedZips, zip_files, mi,
                    count_moved, count_unsorted, summary, run, startFiles, scans >>

\* The relocation placed inside the member loop
AfterMembersEarly == pc = "for_member"

\* The member loop of the current archive is over (line 71 exhausted)
AfterMembers ==
    /\ pc = "for_member"
    /\ mi > Len(infolist)

\* Lines 115-118: the member loop is over, the archive moves to
\* processed_archive
Relocate ==
    /\ AfterMembers
    /\ scans' = scans \cup {<<run, zi, zip_path>>}
    /\ processedExists' = TRUE
    /\ sourceZips' = sourceZips \ {zip_path}
    /\ processedZips' = processedZips \cup {zip_path}
    /\ Say(Line("Finished", zip_path, "", ""))
    /\ zi' = zi + 1
    /\ pc' = "for_zip"
    /\ UNCHANGED << configFile, configDoc, modsExists, sourceExists, destDirs,
                    destFiles, zip_files, mi, count_moved, count_unsorted,
                    summary, outcomes, run, faults, startFiles >>

\* shutil.move raising after the copy was made: the archive is in both places
RelocateFailsHalfway ==
    /\ AfterMembers
    /\ scans' = scans \cup {<<run, zi, zip_path>>}
    /\ faults < MaxFaults
    /\ faults' = faults + 1
    /\ processedExists' = TRUE
    /\ processedZips' = processedZips \cup {zip_path}
    /\ Except(<< Line("unexpected error", zip_path, "", "") >>)
    /\ UNCHANGED << configFile, configDoc, modsExists, sourceExists, sourceZips,
                    destDirs, destFiles, zip_files, mi,
                    count_moved, count_unsorted, summary, outcomes, run, startFiles >>

\* Lines 115-117 and 122-123: shutil.move raises
RelocateFails ==
    /\ AfterMembers
    /\ scans' = scans \cup {<<run, zi, zip_path>>}
    /\ faults < MaxFaults
    /\ faults' = faults + 1
    /\ processedExists' = TRUE
    /\ Except(<< Line("unexpected error", zip_path, "", "") >>)
    /\ UNCHANGED << configFile, configDoc, modsExists, sourceExists, sourceZips,
                    processedZips, destDirs, destFiles, zip_files, mi,
                    count_moved, count_unsorted, summary, outcomes, run, startFiles >>

\* Lines 125-128: the summary, after the last archive
Summary ==
    /\ pc = "for_zip"
    /\ zi > Len(zip_files)
    /\ summary' = {[moved |-> count_moved, unsorted |-> count_unsorted]}
    /\ Say(Line("DONE", "", "", ""))
    /\ pc' = "done"
    /\ UNCHANGED << configFile, configDoc, modsExists, fsVars, zip_files, zi, mi,
                    count_moved, count_unsorted, outcomes, run, faults, startFiles, scans >>

\* The script is started again on the filesystem the previous run left
RunAgain ==
    /\ pc \in {"done", "exit"}
    /\ run < MaxRuns
    /\ run' = run + 1
    /\ pc' = "load_config"
    /\ zip_files' = << >>
    /\ zi' = 0
    /\ mi' = 0
    /\ count_moved' = 0
    /\ count_unsorted' = 0
    /\ out' = << >>
    /\ summary' = {}
    /\ outcomes' = << >>
    /\ startFiles' = destFiles
    /\ UNCHANGED << configFile, configDoc, modsExists, fsVars, faults, scans >>

Next ==
    \/ LoadConfig
    \/ GetSimsModsPath
    \/ Enumerate
    \/ OpenZip
    \/ SkipIneligible
    \/ PatternError
    \/ SkipExisting
    \/ Extract
    \/ ExtractFails
    \/ Relocate
    \/ RelocateFails
    \/ Summary
    \/ RunAgain

Spec == Init /\ [][Next]_vars

\* A step of the script itself: everything but a new start by the user
Step ==
    \/ LoadConfig
    \/ GetSimsModsPath
    \/ Enumerate
    \/ OpenZip
    \/ SkipIneligible
    \/ PatternError
    \/ SkipExisting
    \/ Extract
    \/ ExtractFails
    \/ Relocate
    \/ RelocateFails
    \/ Summary

\* The script is sequential and blocking: while it has a next statement it
\* executes it
FairSpec == Spec /\ WF_vars(Step)

TypeOK ==
    /\ pc \in {"load_config", "get_sims_mods_path", "process_zips", "for_zip",
               "for_member", "done", "exit"}
    /\ count_moved \in Nat
    /\ count_unsorted \in Nat

\* ------------------------------------------------------------------------
\* Properties
\* ------------------------------------------------------------------------
Range(f) == {f[x] : x \in DOMAIN f}

\* Positions of the members of archive z that pass the scan: not a
\* directory entry, the name ends with .package whatever its case
EligibleIn(z) ==
    {i \in DOMAIN ZipLibrary[z].members :
        LET f == ZipLibrary[z].members[i].filename
        IN  ~ IsDir(f) /\ EndsWith(Lower(f), ".package")}

EligiblePositions == [z \in ZipNames |-> EligibleIn(z)]

\* C1: no step of a run changes the content of, or removes, a file that
\* already exists under the destination root, whether it pre-dated the run
\* or was written earlier in the run.
C1_NoOverwrite ==
    [][\A p \in DOMAIN destFiles :
          p \in DOMAIN destFiles' /\ destFiles'[p] = destFiles[p]]_vars

\* C1 witness: a member was skipped at a destination that holds something
\* other than the member's payload.
C1_Witness ==
    \E k \in DOMAIN outcomes :
        /\ outcomes[k].result = "Skipped"
        /\ destFiles[Path(outcomes[k].category, outcomes[k].filename)]
              # ZipLibrary[zip_files[k[1]]].members[k[2]].payload

\* C2: an archive enumerated by this run is in the processed area only if it
\* opened and every eligible member of it was extracted or skipped; an
\* archive that did not open, or whose scan is not over, is in the source
\* folder and not in the processed area.
C2_RelocationOrdering ==
    \A k \in DOMAIN zip_files :
        LET z == zip_files[k] IN
        /\ z \in processedZips =>
              /\ ZipLibrary[z].valid
              /\ k < zi
              /\ \A i \in EligiblePositions[z] :
                    /\ <<k, i>> \in DOMAIN outcomes
                    /\ outcomes[<<k, i>>].result \in {"Extracted", "Skipped"}
        /\ (~ ZipLibrary[z].valid \/ k > zi \/ (k = zi /\ pc \in {"for_zip", "for_member"})) =>
              /\ z \in sourceZips
              /\ z \notin processedZips

\* C2 witness: an archive was relocated after one of its members was
\* extracted and another skipped, while a later archive waits in the source.
C2_Witness ==
    \E k \in DOMAIN zip_files :
        /\ zip_files[k] \in processedZips
        /\ \E i, j \in EligiblePositions[zip_files[k]] :
              /\ <<k, i>> \in DOMAIN outcomes /\ outcomes[<<k, i>>].result = "Extracted"
              /\ <<k, j>> \in DOMAIN outcomes /\ outcomes[<<k, j>>].result = "Skipped"
        /\ k < Len(zip_files)
        /\ zip_files[Len(zip_files)] \in sourceZips

Malformed == \E i \in DOMAIN rules : ReMalformed(rules[i].pattern)

\* C3 (as claimed): once the run is over, a member whose write failed did not
\* keep the later eligible members of its archive from being classified and
\* extracted or skipped (rule sets without malformed patterns).
C3_WriteFailureDoesNotEscalate ==
    (pc = "done" /\ ~ Malformed) =>
        \A k \in DOMAIN outcomes :
            outcomes[k].result = "Failed" =>
                \A j \in EligiblePositions[zip_files[k[1]]] :
                    j > k[2] => <<k[1], j>> \in DOMAIN outcomes

\* The rules of the rule set whose pattern hits a flattened name
Hits(name) ==
    {i \in DOMAIN rules :
        ~ ReMalformed(rules[i].pattern) /\ Searched[rules[i].pattern, name]}

First(S) == CHOOSE i \in S : \A j \in S : i <= j

\* C4: the category of every classified member some rule hits is the key of
\* the first rule, in rule-set order, whose pattern hits its flattened name,
\* and the member counts as matched.
C4_FirstMatch ==
    \A k \in DOMAIN outcomes :
        Hits(outcomes[k].filename) # {} =>
            /\ outcomes[k].found_match
            /\ outcomes[k].category = rules[First(Hits(outcomes[k].filename))].key

\* C4 witness: with rules hair:'hai', accessories:'air' both patterns hit
\* long_hair_01.package and it went to hair.
C4_Witness ==
    /\ rules = << Rule("hair", "hai"), Rule("accessories", "air") >>
    /\ \E k \in DOMAIN outcomes :
          /\ outcomes[k].filename = "long_hair_01.package"
          /\ Hits(outcomes[k].filename) = {1, 2}
          /\ outcomes[k].result = "Extracted"
          /\ Path("hair", "long_hair_01.package") \in DOMAIN destFiles

\* C5: a classified member no rule hits goes to the fallback category,
\* unmatched, and the category of every classified member is a key of the
\* rule set or the fallback name.
C5_Fallback ==
    \A k \in DOMAIN outcomes :
        /\ Hits(outcomes[k].filename) = {} =>
              /\ outcomes[k].category = unsorted_name
              /\ ~ outcomes[k].found_match
        /\ outcomes[k].category \in {rules[i].key : i \in DOMAIN rules} \cup {unsorted_name}

\* C5 witness: under a non-empty rule set a member no rule hits was
\* extracted into the fallback folder.
C5_Witness ==
    /\ rules # << >>
    /\ \E k \in DOMAIN outcomes :
          /\ Hits(outcomes[k].filename) = {}
          /\ outcomes[k].result = "Extracted"
          /\ Path(unsorted_name, outcomes[k].filename) \in DOMAIN destFiles

PrintedIn(log, tag, z) == \E n \in DOMAIN log : log[n].tag = tag /\ log[n].zip = z

Printed(tag, z) == PrintedIn(out, tag, z)

\* C6: an enumerated archive that is not a valid archive stays in the source
\* folder and out of the processed area, no member of it is ever handled,
\* the step that fails to open it reports it and leaves the destination tree
\* as it was, and when the run is over every archive listed after it was
\* started on.
C6_CorruptArchive ==
    /\ [](\A k \in DOMAIN zip_files :
            ~ ZipLibrary[zip_files[k]].valid =>
                /\ zip_files[k] \in sourceZips
                /\ zip_files[k] \notin processedZips
                /\ \A o \in DOMAIN outcomes : o[1] # k
                /\ k < zi => Printed("ERROR corrupted", zip_files[k])
                /\ pc = "done" =>
                      \A j \in DOMAIN zip_files :
                          j > k => Printed("Processing archive", zip_files[j]))
    /\ [][(pc = "for_zip" /\ zi \in DOMAIN zip_files /\ ~ ZipLibrary[zip_files[zi]].valid) =>
              /\ destFiles' = destFiles
              /\ destDirs' = destDirs
              /\ PrintedIn(out', "ERROR corrupted", zip_files[zi])]_vars

\* C6 witness: the run is over, the first of two archives was corrupt and
\* the second was extracted from and relocated.
C6_Witness ==
    /\ pc = "done"
    /\ Len(zip_files) = 2
    /\ ~ ZipLibrary[zip_files[1]].valid
    /\ Printed("ERROR corrupted", zip_files[1])
    /\ zip_files[2] \in processedZips
    /\ \E o \in DOMAIN outcomes : o[1] = 2 /\ outcomes[o].result = "Extracted"

\* The end-to-end scenario: a first run over pack1.zip alone into an empty
\* Mods directory, no I/O error, now over
EndToEndRun ==
    /\ pc = "done"
    /\ run = 1
    /\ faults = 0
    /\ rules = << Rule("hair", "hair"), Rule("eyes", "eye") >>
    /\ unsorted_name = "_unsorted"
    /\ startFiles = << >>
    /\ zip_files = << "pack1.zip" >>

\* C7 (as claimed): after the end-to-end run hair/RedHair.package,
\* eye/GreenEye.package and _unsorted/Shoe.package exist, notes.txt is
\* nowhere in the destination, pack1.zip is in the processed area and the
\* summary says matched=2, fallback=1.
C7_EndToEndAsClaimed ==
    EndToEndRun =>
        /\ Path("hair", "RedHair.package") \in DOMAIN destFiles
        /\ Path("eye", "GreenEye.package") \in DOMAIN destFiles
        /\ Path("_unsorted", "Shoe.package") \in DOMAIN destFiles
        /\ \A q \in DOMAIN destFiles : q[2] # "notes.txt"
        /\ "pack1.zip" \in processedZips
        /\ summary = {[moved |-> 2, unsorted |-> 1]}

\* C7 (amended): the same, with GreenEye.package under the rule's key, eyes.
C7_EndToEnd ==
    EndToEndRun =>
        /\ Path("hair", "RedHair.package") \in DOMAIN destFiles
        /\ Path("eyes", "GreenEye.package") \in DOMAIN destFiles
        /\ Path("_unsorted", "Shoe.package") \in DOMAIN destFiles
        /\ \A q \in DOMAIN destFiles : q[2] # "notes.txt"
        /\ "pack1.zip" \in processedZips
        /\ summary = {[moved |-> 2, unsorted |-> 1]}

\* C7 witness: the end-to-end run is over and left GreenEye.package in eyes.
C7_Witness ==
    /\ EndToEndRun
    /\ destFiles[Path("eyes", "GreenEye.package")] = "green"
    /\ DOMAIN destFiles = { Path("hair", "RedHair.package"),
                            Path("eyes", "GreenEye.package"),
                            Path("_unsorted", "Shoe.package") }

\* A line printed for re.error raised while a member was being matched
PatternErrorLine(l) ==
    l.tag = "unexpected error" /\ l.filename # "" /\ l.category = ""

\* C8 (as claimed): in a first run whose rule set holds a malformed pattern
\* no destination file is written, no archive is relocated and the error
\* does not surface while a member is being matched.
C8_MalformedFailsFast ==
    (run = 1 /\ Malformed) =>
        /\ destFiles = startFiles
        /\ processedZips = {}
        /\ \A n \in DOMAIN out : ~ PatternErrorLine(out[n])

\* Flattened names of the eligible members of the archives of this run
EligibleNames ==
    UNION {{Scanned[ZipLibrary[z].members[i].filename].base_filename :
                i \in EligiblePositions[z]} : z \in Range(zip_files)}

\* C9: a member that is a directory entry or lacks the tracked extension is
\* never given an outcome, every file this run added to the destination
\* carries the flattened name of an eligible member, and the step that scans
\* such a member changes neither the destination tree nor a counter.
C9_IneligibleNoEffect ==
    /\ [](/\ \A k \in DOMAIN outcomes : k[2] \in EligiblePositions[zip_files[k[1]]]
          /\ \A q \in DOMAIN destFiles \ DOMAIN startFiles : q[2] \in EligibleNames)
    /\ [][(/\ pc = "for_member"
           /\ mi \in DOMAIN ZipLibrary[zip_files[zi]].members
           /\ mi \notin EligiblePositions[zip_files[zi]]) =>
              /\ destFiles' = destFiles
              /\ destDirs' = destDirs
              /\ count_moved' = count_moved
              /\ count_unsorted' = count_unsorted
              /\ outcomes' = outcomes]_vars

\* C9 witness: a run over pack1.zip (notes.txt) and pack2.zip (folder/) is
\* over, both were scanned to the end, and files were written.
C9_Witness ==
    /\ pc = "done"
    /\ {"pack1.zip", "pack2.zip"} = Range(zip_files)
    /\ {"pack1.zip", "pack2.zip"} \subseteq processedZips
    /\ DOMAIN destFiles # DOMAIN startFiles

\* Files this run wrote in full
Written ==
    {q \in DOMAIN destFiles \ DOMAIN startFiles :
        destFiles[q] \notin {EmptyFile, TruncatedFile}}

\* C10: the summary of a finished run gives as matched the number of files
\* the run wrote into rule categories and as fallback the number it wrote
\* into the fallback category, and a step on which a member is skipped or
\* its write fails leaves both counters as they were.
C10_RunCounters ==
    /\ [](pc = "done" =>
            summary = {[moved |-> Cardinality({q \in Written : q[1] # unsorted_name}),
                        unsorted |-> Cardinality({q \in Written : q[1] = unsorted_name})]})
    /\ [][(\E k \in DOMAIN outcomes' \ DOMAIN outcomes :
              outcomes'[k].result \in {"Skipped", "Failed"}) =>
              /\ count_moved' = count_moved
              /\ count_unsorted' = count_unsorted]_vars

\* C10 witness: a finished run that counted a match and a fallback and in
\* which one member was skipped and the write of another failed.
C10_Witness ==
    /\ pc = "done"
    /\ \E m, u \in 1..4 : summary = {[moved |-> m, unsorted |-> u]}
    /\ \E k \in DOMAIN outcomes : outcomes[k].result = "Skipped"
    /\ \E k \in DOMAIN outcomes : outcomes[k].result = "Failed"

\* The archive at position k of this run, or one with the same members, went
\* through a whole member loop before: in an earlier run, or earlier in this
\* one
FedBefore(k) ==
    \E s \in scans :
        /\ ZipLibrary[s[3]].members = ZipLibrary[zip_files[k]].members
        /\ s[1] < run \/ (s[1] = run /\ s[2] < k)

\* C11: when an archive (or a copy of it) that went through a whole member
\* loop before is fed again under the same rule set, every member of it that
\* gets an outcome is skipped, every eligible member has been skipped once
\* its scan is over, and no step of that scan changes a destination file or
\* a counter.
C11_Idempotence ==
    /\ [](\A k \in DOMAIN zip_files :
            FedBefore(k) =>
                /\ \A o \in DOMAIN outcomes :
                      o[1] = k => outcomes[o].result = "Skipped"
                /\ (k < zi /\ ZipLibrary[zip_files[k]].valid) =>
                      \A i \in EligiblePositions[zip_files[k]] :
                          <<k, i>> \in DOMAIN outcomes)
    /\ [][(pc = "for_member" /\ zi \in DOMAIN zip_files /\ FedBefore(zi)) =>
              /\ destFiles' = destFiles
              /\ count_moved' = count_moved
              /\ count_unsorted' = count_unsorted]_vars

\* C11 witness: a second run is over in which pack1.zip, scanned to the end
\* by the first run, had all three eligible members skipped and the summary
\* counted nothing.
C11_Witness ==
    /\ run = 2
    /\ pc = "done"
    /\ zip_files = << "pack1.zip" >>
    /\ FedBefore(1)
    /\ \A i \in EligiblePositions["pack1.zip"] :
          <<1, i>> \in DOMAIN outcomes /\ outcomes[<<1, i>>].result = "Skipped"
    /\ destFiles = startFiles
    /\ summary = {[moved |-> 0, unsorted |-> 0]}

\* Pairs of eligible members of archive z, in member order, that flatten to
\* the same filename
Collisions(z) ==
    {c \in EligiblePositions[z] \X EligiblePositions[z] :
        /\ c[1] < c[2]
        /\ Scanned[ZipLibrary[z].members[c[1]].filename].base_filename
              = Scanned[ZipLibrary[z].members[c[2]].filename].base_filename}

Collide == [z \in ZipNames |-> Collisions(z)]

\* C12: of two eligible members of an archive that flatten to the same name,
\* once the later one has been handled and the first one did not find a file
\* in its way, the first was extracted, the later skipped and the
\* destination holds the payload of the first; the step that extracted the
\* first raised the counters by one in all and the step on the later one
\* changes neither a counter nor a file.
C12_CollisionFirstWins ==
    /\ [](\A k \in DOMAIN zip_files : \A c \in Collide[zip_files[k]] :
            (/\ <<k, c[2]>> \in DOMAIN outcomes
             /\ outcomes[<<k, c[1]>>].result # "Skipped") =>
                /\ outcomes[<<k, c[1]>>].result = "Extracted"
                /\ outcomes[<<k, c[2]>>].result = "Skipped"
                /\ destFiles[Path(outcomes[<<k, c[1]>>].category,
                                  outcomes[<<k, c[1]>>].filename)]
                      = ZipLibrary[zip_files[k]].members[c[1]].payload)
    /\ [][\A c \in (IF pc = "for_member" THEN Collide[zip_files[zi]] ELSE {}) :
             /\ (mi = c[1] /\ <<zi, mi>> \in DOMAIN outcomes'
                 /\ outcomes'[<<zi, mi>>].result = "Extracted") =>
                   count_moved' + count_unsorted' = count_moved + count_unsorted + 1
             /\ (mi = c[2] /\ <<zi, c[1]>> \in DOMAIN outcomes
                 /\ outcomes[<<zi, c[1]>>].result = "Extracted") =>
                   /\ count_moved' = count_moved
                   /\ count_unsorted' = count_unsorted
                   /\ destFiles' = destFiles]_vars

\* C12 witness: in pack2.zip subdir/deep/MyHat.PACKAGE was extracted, then
\* other/MyHat.PACKAGE skipped, and the file holds the first payload.
C12_Witness ==
    \E k \in DOMAIN zip_files :
        /\ zip_files[k] = "pack2.zip"
        /\ <<k, 4>> \in DOMAIN outcomes
        /\ outcomes[<<k, 2>>].result = "Extracted"
        /\ outcomes[<<k, 4>>].result = "Skipped"
        /\ outcomes[<<k, 4>>].filename = "MyHat.PACKAGE"
        /\ destFiles[Path(outcomes[<<k, 2>>].category, "MyHat.PACKAGE")] = "hat1"

\* The archives of the "Processing archive" lines of a log, in order
RECURSIVE Attempts(_)
Attempts(log) ==
    IF log = << >> THEN << >>
    ELSE IF Head(log).tag = "Processing archive"
         THEN << Head(log).zip >> \o Attempts(Tail(log))
         ELSE Attempts(Tail(log))

\* C13: once archives have been enumerated the run eventually prints its
\* summary, whatever happens to each archive, and by then it has started on
\* every enumerated archive exactly once, in the order of the listing; until
\* then the archives started on are the first ones of the listing.
C13_ReachesSummary ==
    /\ (pc = "for_zip") ~> (pc = "done")
    /\ [](pc = "done" => (summary # {} /\ Attempts(out) = zip_files))
    /\ [](pc \in {"for_zip", "for_member"} =>
            \E n \in 0..Len(zip_files) : Attempts(out) = SubSeq(zip_files, 1, n))

\* C13 witness: the summary was printed after a run over two archives of
\* which one did not open or hit an unexpected error.
C13_Witness ==
    /\ pc = "done"
    /\ summary # {}
    /\ Len(zip_files) = 2
    /\ \/ Printed("ERROR corrupted", zip_files[1])
       \/ Printed("unexpected error", zip_files[1])
    /\ Printed("Processing archive", zip_files[2])

\* The step prints the unexpected-error line of the handler of lines 122-123
UnexpectedErrorStep ==
    /\ Len(out') > Len(out)
    /\ out'[Len(out')].tag = "unexpected error"

StartsOn(z) ==
    \E n \in (Len(out) + 1)..Len(out') :
        out'[n].tag = "Processing archive" /\ out'[n].zip = z

\* C15: an archive in the processed area is not in the source folder and is
\* not ahead in the listing of the run; it stays in the processed area, no
\* later listing contains it and no later step starts on it.
C15_NotReprocessed ==
    /\ [](\A z \in processedZips :
            /\ z \notin sourceZips
            /\ \A k \in DOMAIN zip_files : zip_files[k] = z => k < zi)
    /\ [][\A z \in processedZips :
             /\ z \in processedZips'
             /\ zip_files' # zip_files => z \notin Range(zip_files')
             /\ ~ StartsOn(z)]_vars

\* C15 witness: a second run listed and started on an archive while another
\* archive, relocated by the first run, lay in the processed area.
C15_Witness ==
    /\ run = 2
    /\ pc = "done"
    /\ zip_files # << >>
    /\ Attempts(out) = zip_files
    /\ \E z \in processedZips : z \notin Range(zip_files)

\* C16: with a missing or invalid config.json, or a missing Mods directory,
\* the run never gets past start-up, and without archives in the source
\* folder it never enters the archive loop; a run that ended at start-up has
\* reported, started on no archive, handled no member, written nothing under
\* the Mods directory and printed no summary, and no start-up step changes
\* the Mods directory, the archives or the processed area.
C16_FatalStartup ==
    /\ [](/\ (configFile # "ok" /\ pc # "load_config") => pc = "exit"
          /\ (~ modsExists /\ pc \notin {"load_config", "get_sims_mods_path"}) => pc = "exit"
          /\ pc \in {"for_zip", "for_member", "done"} => zip_files # << >>
          /\ pc = "exit" =>
                /\ out # << >>
                /\ Attempts(out) = << >>
                /\ outcomes = << >>
                /\ destFiles = startFiles
                /\ summary = {})
    /\ [][(pc \in {"load_config", "get_sims_mods_path", "process_zips"}) =>
              (UNCHANGED << destFiles, destDirs, sourceZips, processedZips,
                            processedExists >>)]_vars

\* C16 witness: a run ended at start-up for want of the Mods directory while
\* an archive lay in the source folder.
C16_Witness ==
    /\ pc = "exit"
    /\ ~ modsExists
    /\ sourceZips # {}
    /\ out[Len(out)].tag = "CRITICAL ERROR"

\* The category the rule set gives a flattened name: the key of the first
\* rule that hits it, the fallback name when none does
ExpectedCategory(name) ==
    IF Hits(name) = {} THEN unsorted_name ELSE rules[First(Hits(name))].key

\* C17: for every archive in the processed area and every eligible member of
\* it, a file exists under the Mods directory at the member's category and
\* flattened name.
C17_RelocationImpliesPresence ==
    \A z \in processedZips : \A i \in EligiblePositions[z] :
        LET name == Scanned[ZipLibrary[z].members[i].filename].base_filename
        IN  Path(ExpectedCategory(name), name) \in DOMAIN destFiles

\* C17 witness: a relocated archive of which one member was written by this
\* run and another found a file with other content already in place.
C17_Witness ==
    \E k \in DOMAIN zip_files :
        /\ zip_files[k] \in processedZips
        /\ \E o \in DOMAIN outcomes : o[1] = k /\ outcomes[o].result = "Extracted"
        /\ \E o \in DOMAIN outcomes :
              /\ o[1] = k
              /\ outcomes[o].result = "Skipped"
              /\ Path(outcomes[o].category, outcomes[o].filename) \in DOMAIN startFiles
              /\ destFiles[Path(outcomes[o].category, outcomes[o].filename)]
                    # ZipLibrary[zip_files[k]].members[o[2]].payload

Partial(content) == content \in {EmptyFile, TruncatedFile}

\* C18: the step on which a write fails after the file was opened leaves an
\* empty or truncated file, reports, and keeps the archive in the source
\* folder; such a file is never changed afterwards; a member that resolves to
\* a file left that way before the run started is skipped; and an archive
\* whose pass is over without an unexpected error is in the processed area,
\* leftover file or not.
C18_LeftoverBlocksRepair ==
    /\ [][(\E p \in DOMAIN destFiles' \ DOMAIN destFiles : Partial(destFiles'[p])) =>
              /\ UnexpectedErrorStep
              /\ zip_files[zi] \in sourceZips'
              /\ zip_files[zi] \notin processedZips']_vars
    /\ [][\A p \in DOMAIN destFiles :
              Partial(destFiles[p]) =>
                  p \in DOMAIN destFiles' /\ destFiles'[p] = destFiles[p]]_vars
    /\ [](\A o \in DOMAIN outcomes :
            LET p == Path(outcomes[o].category, outcomes[o].filename)
            IN  (p \in DOMAIN startFiles /\ Partial(startFiles[p])) =>
                    /\ outcomes[o].result = "Skipped"
                    /\ destFiles[p] = startFiles[p])
    /\ [](\A k \in DOMAIN zip_files :
            (/\ k < zi
             /\ ZipLibrary[zip_files[k]].valid
             /\ ~ Printed("unexpected error", zip_files[k])) =>
                zip_files[k] \in processedZips)

\* C18 witness: in a second run an archive was relocated although one of its
\* members was skipped at a file a failed write of the first run had left,
\* and that file is still as it was left.
C18_Witness ==
    /\ run = 2
    /\ \E o \in DOMAIN outcomes :
          LET p == Path(outcomes[o].category, outcomes[o].filename)
          IN  /\ p \in DOMAIN startFiles
              /\ Partial(startFiles[p])
              /\ outcomes[o].result = "Skipped"
              /\ Partial(destFiles[p])
              /\ zip_files[o[1]] \in processedZips
              /\ <<1, o[1], zip_files[o[1]]>> \notin scans

====
